---- MODULE Spec2Model ----
(***************************************************************************)
(* Model of backend/utils.py: concat (merging of diarization chunks),      *)
(* extract_speaker_id, jsonify_transcription and format_transcription.     *)
(*                                                                         *)
(* Times are integer ticks.  pyannote's SEGMENT_PRECISION is far below one *)
(* tick, so a segment is non-empty exactly when end - start > 0.           *)
(* Python's None is the string "None"; a str is a sequence of characters.  *)
(***************************************************************************)
EXTENDS Integers, Sequences, FiniteSets, TLC

VARIABLES
    chunks,        \* concat: the argument, a sequence of (diarization, waveform) pairs
    collar,        \* concat: the argument collar
    annotation,    \* concat: the local running Annotation
    data,          \* concat: the local list of waveform buffers
    concat_i,      \* concat: position of the for loop of line 33
    concat_pc,     \* concat: "call" (line 29), "loop" (line 33), "done" or "raised"
    concat_ret,    \* concat: the returned pair, or "None"
    concat_exc,    \* concat: the exception that left the function, or "None"
    speaker_label, \* extract_speaker_id: the argument
    spk_pc,        \* extract_speaker_id: "call", "except", "done" or "raised"
    spk_ret,       \* extract_speaker_id: the returned value, or "None"
    spk_exc,       \* extract_speaker_id: the exception raised in the try block, or "None"
    log,           \* logging: the levels of the records logged so far
    SPEAKER_MAPPING, \* config: speaker id -> display name
    transcription, \* jsonify_transcription: the argument
    result,        \* jsonify_transcription: the local list result
    json_i,        \* jsonify_transcription: position of the for loop of line 53
    json_pc,       \* jsonify_transcription: "call", "loop" or "done"
    json_ret,      \* jsonify_transcription: the returned list, or "None"
    segments,      \* format_transcription: the argument, an iterable of segments
    info,          \* format_transcription: the argument info
    yielded,       \* how many segments the iterable has handed out when it is a generator
    iter_pos,      \* position of the iterator of the running for loop
    language,      \* format_transcription: the local language
    transcription_text, \* concatenate_segments: the local transcription_text
    text,          \* format_transcription: the local text
    json_segments, \* format_transcription: the list built at line 126
    fmt_pc,        \* format_transcription: "call", "concatenate", "jsonify", "return", "done"
    fmt_ret        \* format_transcription: the returned document, or "None"

concat_vars == <<chunks, collar, annotation, data, concat_i, concat_pc, concat_ret, concat_exc>>

spk_vars == <<speaker_label, spk_pc, spk_ret, spk_exc, log>>

json_vars == <<SPEAKER_MAPPING, transcription, result, json_i, json_pc, json_ret>>

fmt_vars == <<segments, info, yielded, iter_pos, language, transcription_text, text,
              json_segments, fmt_pc, fmt_ret>>

vars == <<concat_vars, spk_vars, json_vars, fmt_vars>>

None == "None"

\* ------------------------------------------------------------------ bounds

MaxChunks == 2
MaxTime == 3
MaxLabelLen == 3
MaxTurns == 2
MaxSegments == 3

\* ------------------------------------------------- pyannote.core.Segment

Min2(a, b) == IF a <= b THEN a ELSE b

Max2(a, b) == IF a >= b THEN a ELSE b

Segment(s, e) == [start |-> s, end |-> e]

\* Segment.__bool__: a segment is empty when it lasts no longer than the precision.
SegNonEmpty(seg) == seg.end - seg.start > 0

\* Segment.duration
SegDuration(seg) == IF SegNonEmpty(seg) THEN seg.end - seg.start ELSE 0

\* Segment.__xor__: the gap between two non-empty segments.
SegGap(a, b) == Segment(Min2(a.end, b.end), Max2(a.start, b.start))

\* Segment.__or__: the smallest segment holding both.
SegUnion(a, b) == Segment(Min2(a.start, b.start), Max2(a.end, b.end))

\* Segments are ordered by (start, end).
SegLeq(a, b) == a.start < b.start \/ (a.start = b.start /\ a.end <= b.end)

RECURSIVE SortedSegments(_)
SortedSegments(S) ==
    IF S = {} THEN <<>>
    ELSE LET m == CHOOSE s \in S : \A t \in S : SegLeq(s, t)
         IN  <<m>> \o SortedSegments(S \ {m})

\* ------------------------------------------------ pyannote.core.Timeline

\* Mutant: a gap of exactly collar is merged too.
CloseEnough_Inclusive(gap, c) == (~SegNonEmpty(gap)) \/ SegDuration(gap) <= c

\* The merging condition of Timeline.support_iter: no gap, or a gap shorter than collar.
CloseEnough(gap, c) == (~SegNonEmpty(gap)) \/ SegDuration(gap) < c

\* Timeline.support_iter from position k on, new_segment being the segment under
\* construction.
RECURSIVE SupportIter(_, _, _, _)
SupportIter(segs, k, new_segment, c) ==
    IF k > Len(segs) THEN <<new_segment>>
    ELSE IF CloseEnough(SegGap(segs[k], new_segment), c)
         THEN SupportIter(segs, k + 1, SegUnion(new_segment, segs[k]), c)
         ELSE <<new_segment>> \o SupportIter(segs, k + 1, segs[k], c)

\* Timeline.support(collar): a timeline is a set of segments kept sorted.
TimelineSupport(T, c) ==
    IF T = {} THEN <<>>
    ELSE LET segs == SortedSegments(T) IN SupportIter(segs, 1, segs[1], c)

SeqToSet(s) == {s[k] : k \in 1..Len(s)}

\* ---------------------------------------------- pyannote.core.Annotation

\* An Annotation: a uri and tracks, keyed by (segment, track name), each with a label.
Annotation(uri) == [uri |-> uri, tracks |-> {}]

\* Annotation.update: result[segment, track] = label for every track of the other
\* annotation; an existing (segment, track) key gets the new label.
Update(self, other) ==
    [self EXCEPT !.tracks =
        {t \in self.tracks :
            ~\E u \in other.tracks : u.seg = t.seg /\ u.track = t.track}
        \cup {u \in other.tracks : SegNonEmpty(u.seg)}]

\* Annotation.labels(): the labels, sorted.
Labels == {"A", "B"}

LabelOrder == <<"A", "B">>

LabelsOf(self) == {t.label : t \in self.tracks}

\* Annotation.label_timeline(label)
LabelTimeline(self, label) == {t.seg : t \in {u \in self.tracks : u.label = label}}

\* The timeline of one label after timeline.support(collar) and the second,
\* collar-less timeline.support() of Annotation.support.
LabelSupport(self, label, c) ==
    TimelineSupport(SeqToSet(TimelineSupport(LabelTimeline(self, label), c)), 0)

\* Annotation.support(collar): labels in sorted order, each support segment a new
\* track named by the next value of one generator (here its rank, from 1).
RECURSIVE SupportTracks(_, _, _, _)
SupportTracks(self, c, k, n) ==
    IF k > Len(LabelOrder) THEN {}
    ELSE LET label == LabelOrder[k]
             segs  == IF label \in LabelsOf(self)
                      THEN LabelSupport(self, label, c)
                      ELSE <<>>
         IN  {[seg |-> segs[j], track |-> n + j, label |-> label] : j \in 1..Len(segs)}
             \cup SupportTracks(self, c, k + 1, n + Len(segs))

Support(self, c) == [uri |-> self.uri, tracks |-> SupportTracks(self, c, 1, 0)]

\* ------------------------------------------------------ numpy / waveform

SlidingWindow(duration, step, start) == [duration |-> duration, step |-> step, start |-> start]

\* A waveform buffer of shape (frames, channels): its rows, and its channel count.
Buffer(channels, rows) == [channels |-> channels, rows |-> rows]

RECURSIVE ConcatRows(_, _)
ConcatRows(bufs, k) ==
    IF k > Len(bufs) THEN <<>> ELSE bufs[k].rows \o ConcatRows(bufs, k + 1)

\* Mutant: every buffer must have the same shape, as np.stack would ask.
NpCanConcatenate_SameShape(bufs) ==
    \A j, k \in 1..Len(bufs) :
        bufs[j].channels = bufs[k].channels /\ Len(bufs[j].rows) = Len(bufs[k].rows)

\* np.concatenate(data, axis=0) needs the same channel count in every buffer.
NpCanConcatenate(bufs) == \A j, k \in 1..Len(bufs) : bufs[j].channels = bufs[k].channels

RECURSIVE ConcatRowsReversed(_, _)
ConcatRowsReversed(bufs, k) ==
    IF k > Len(bufs) THEN <<>> ELSE ConcatRowsReversed(bufs, k + 1) \o bufs[k].rows

\* Mutant: the buffers are joined last first.
NpConcatenate_Reversed(bufs) == Buffer(bufs[1].channels, ConcatRowsReversed(bufs, 1))

NpConcatenate(bufs) == Buffer(bufs[1].channels, ConcatRows(bufs, 1))

SlidingWindowFeature(d, window) == [data |-> d, sliding_window |-> window]

\* ---------------------------------------------------------------- concat

first_annotation == chunks[1].ann

\* Mutant: the last chunk's waveform is taken for the first.
last_waveform == chunks[Len(chunks)].wav

first_waveform == chunks[1].wav

\* Mutant: an empty list is answered with an empty result instead of an exception.
ConcatEnter_EmptyResult ==
    /\ concat_pc = "call"
    /\ IF chunks = <<>>
       THEN /\ concat_pc' = "done"
            /\ concat_ret' = <<Annotation(None), None>>
            /\ UNCHANGED <<annotation, data, concat_exc>>
       ELSE /\ annotation' = Annotation(first_annotation.uri)
            /\ data' = <<>>
            /\ concat_pc' = "loop"
            /\ UNCHANGED <<concat_ret, concat_exc>>
    /\ UNCHANGED <<chunks, collar, concat_i>>
    /\ UNCHANGED <<spk_vars, json_vars, fmt_vars>>

\* Lines 29-32: chunks[0] raises IndexError on an empty list.
ConcatEnter ==
    /\ concat_pc = "call"
    /\ IF chunks = <<>>
       THEN /\ concat_pc' = "raised"
            /\ concat_exc' = "IndexError"
            /\ UNCHANGED <<annotation, data>>
       ELSE /\ annotation' = Annotation(first_annotation.uri)
            /\ data' = <<>>
            /\ concat_pc' = "loop"
            /\ concat_exc' = concat_exc
    /\ UNCHANGED <<chunks, collar, concat_i, concat_ret>>
    /\ UNCHANGED <<spk_vars, json_vars, fmt_vars>>

\* Lines 33-35: one iteration of the loop.
ConcatLoop ==
    /\ concat_pc = "loop"
    /\ concat_i <= Len(chunks)
    /\ annotation' = Update(annotation, chunks[concat_i].ann)
    /\ data' = Append(data, chunks[concat_i].wav.data)
    /\ concat_i' = concat_i + 1
    /\ UNCHANGED <<chunks, collar, concat_pc, concat_ret, concat_exc>>
    /\ UNCHANGED <<spk_vars, json_vars, fmt_vars>>

\* Lines 36-43: support, the first chunk's window, concatenation, return.
ConcatReturn ==
    /\ concat_pc = "loop"
    /\ concat_i > Len(chunks)
    /\ annotation' = Support(annotation, collar)
    /\ LET window == SlidingWindow(first_waveform.sliding_window.duration,
                                   first_waveform.sliding_window.step,
                                   first_waveform.sliding_window.start)
       IN  IF NpCanConcatenate(data)
           THEN /\ data' = NpConcatenate(data)
                /\ concat_ret' = <<annotation', SlidingWindowFeature(data', window)>>
                /\ concat_pc' = "done"
                /\ concat_exc' = concat_exc
           ELSE /\ concat_pc' = "raised"
                /\ concat_exc' = "ValueError"
                /\ UNCHANGED <<data, concat_ret>>
    /\ UNCHANGED <<chunks, collar, concat_i>>
    /\ UNCHANGED <<spk_vars, json_vars, fmt_vars>>

ConcatNext == ConcatEnter \/ ConcatLoop \/ ConcatReturn

\* ----------------------------------------------------- inputs of concat

Uris == {"u1", "u2"}

TrackNames == {"_"}

Segments ==
    {seg \in {Segment(s, e) : s \in 0..MaxTime, e \in 0..MaxTime} : SegNonEmpty(seg)}

\* A diarization of one chunk: no track, or one.
ChunkTracks ==
    {{}} \cup {{[seg |-> seg, track |-> tr, label |-> l]} :
                  seg \in Segments, tr \in TrackNames, l \in Labels}

Windows == {SlidingWindow(2, 1, 0), SlidingWindow(2, 1, 1),
            SlidingWindow(2, 2, 0), SlidingWindow(1, 1, 0)}

Buffers == {Buffer(1, <<>>), Buffer(1, <<<<0>>>>), Buffer(1, <<<<1>>>>),
            Buffer(1, <<<<0>>, <<1>>>>), Buffer(2, <<<<0, 1>>>>)}

SeqsUpTo(S, n) == UNION {[1..k -> S] : k \in 0..n}

Chunk(uri, tracks, buf, window) ==
    [ann |-> [uri |-> uri, tracks |-> tracks], wav |-> SlidingWindowFeature(buf, window)]

\* Chunks whose diarizations vary, over one waveform.
AnnChunks ==
    {Chunk("u1", tr, Buffer(1, <<<<0>>>>), SlidingWindow(2, 1, 0)) : tr \in ChunkTracks}

\* Chunks whose waveforms and uris vary, without tracks.
WavChunks == {Chunk(u, {}, b, w) : u \in Uris, b \in Buffers, w \in Windows}

Collars == 0..(MaxTime - 1)

\* ---------------------------------------------------- extract_speaker_id

\* A Python value: None, an int, or a str (its characters in order).
PyNone == [type |-> "NoneType"]

PyInt(n) == [type |-> "int", value |-> n]

\* A str whose characters no code inspects is written as a TLA+ string.
PyStr(cs) == [type |-> "str", chars |-> cs]

DigitChars == <<"0", "1", "2", "3", "4", "5", "6", "7", "8", "9">>

IsDigit(c) == \E d \in 1..Len(DigitChars) : DigitChars[d] = c

DigitValue(c) == (CHOOSE d \in 1..Len(DigitChars) : DigitChars[d] = c) - 1

\* Mutant: the slice asks for two characters and is empty when there are fewer.
LastTwoOrNothing(cs) == IF Len(cs) < 2 THEN <<>> ELSE SubSeq(cs, Len(cs) - 1, Len(cs))

\* speaker_label[-2:] on a str: its last two characters, or all of it when shorter.
LastTwo(cs) == SubSeq(cs, Max2(1, Len(cs) - 1), Len(cs))

\* str.strip() as int() applies it: leading and trailing whitespace removed.
RECURSIVE Strip(_)
Strip(cs) ==
    IF cs = <<>> THEN cs
    ELSE IF cs[1] = " " THEN Strip(Tail(cs))
    ELSE IF cs[Len(cs)] = " " THEN Strip(SubSeq(cs, 1, Len(cs) - 1))
    ELSE cs

SignOf(cs) == IF cs # <<>> /\ cs[1] = "-" THEN -1 ELSE 1

Unsigned(cs) == IF cs # <<>> /\ cs[1] \in {"-", "+"} THEN Tail(cs) ELSE cs

\* The literal int() accepts in base 10: digits, single underscores between digits.
IsDecimalLiteral(body) ==
    /\ body # <<>>
    /\ \A k \in 1..Len(body) : IsDigit(body[k]) \/ body[k] = "_"
    /\ IsDigit(body[1])
    /\ IsDigit(body[Len(body)])
    /\ \A k \in 1..(Len(body) - 1) : ~(body[k] = "_" /\ body[k + 1] = "_")

RECURSIVE DecimalValue(_, _)
DecimalValue(body, acc) ==
    IF body = <<>> THEN acc
    ELSE IF body[1] = "_" THEN DecimalValue(Tail(body), acc)
    ELSE DecimalValue(Tail(body), 10 * acc + DigitValue(body[1]))

\* int(x) for a str x: whether it parses, and its value.
IntParses(cs) == IsDecimalLiteral(Unsigned(Strip(cs)))

IntOf(cs) == SignOf(Strip(cs)) * DecimalValue(Unsigned(Strip(cs)), 0)

\* The outcome of int(speaker_label[-2:]): None and int are not subscriptable
\* (TypeError); a str that is no literal gives ValueError.
TryOutcome(lbl) ==
    IF lbl.type # "str" THEN [exc |-> "TypeError", value |-> None]
    ELSE IF IntParses(LastTwo(lbl.chars))
         THEN [exc |-> None, value |-> IntOf(LastTwo(lbl.chars))]
         ELSE [exc |-> "ValueError", value |-> None]

\* Mutant: only ValueError is caught.
Caught_ValueErrorOnly(exc) == exc \in {"ValueError"}

\* Line 140: except (ValueError, TypeError)
Caught(exc) == exc \in {"ValueError", "TypeError"}

\* Lines 136-139: the try block.
ExtractTry ==
    /\ spk_pc = "call"
    /\ LET out == TryOutcome(speaker_label)
       IN  IF out.exc = None
           THEN spk_pc' = "done" /\ spk_ret' = out.value /\ spk_exc' = spk_exc
           ELSE spk_pc' = "except" /\ spk_exc' = out.exc /\ spk_ret' = spk_ret
    /\ UNCHANGED <<speaker_label, log>>
    /\ UNCHANGED <<concat_vars, json_vars, fmt_vars>>

\* Lines 140-142: the handler logs a warning and returns -1; any other exception
\* leaves the function.
ExtractExcept ==
    /\ spk_pc = "except"
    /\ IF Caught(spk_exc)
       THEN /\ log' = Append(log, "WARNING")
            /\ spk_ret' = -1
            /\ spk_pc' = "done"
       ELSE /\ spk_pc' = "raised"
            /\ UNCHANGED <<log, spk_ret>>
    /\ UNCHANGED <<speaker_label, spk_exc>>
    /\ UNCHANGED <<concat_vars, json_vars, fmt_vars>>

ExtractNext == ExtractTry \/ ExtractExcept

LabelChars == {"0", "1", "7", "X", "_", "-", " "}

SpeakerLabels ==
    {PyNone, PyInt(7)} \cup {PyStr(cs) : cs \in SeqsUpTo(LabelChars, MaxLabelLen)}

\* ------------------------------------------------- jsonify_transcription

\* Mutant: dict.get without the default gives None for an unmapped speaker.
SpeakerName_NoDefault(speaker) ==
    IF speaker \in DOMAIN SPEAKER_MAPPING THEN PyStr(SPEAKER_MAPPING[speaker]) ELSE PyNone

\* Line 55: SPEAKER_MAPPING.get(speaker, speaker)
SpeakerName(speaker) ==
    IF speaker \in DOMAIN SPEAKER_MAPPING THEN PyStr(SPEAKER_MAPPING[speaker])
    ELSE PyInt(speaker)

\* Line 52
JsonifyEnter ==
    /\ json_pc = "call"
    /\ result' = <<>>
    /\ json_pc' = "loop"
    /\ UNCHANGED <<SPEAKER_MAPPING, transcription, json_i, json_ret>>
    /\ UNCHANGED <<concat_vars, spk_vars, fmt_vars>>

\* Lines 53-55: one iteration, the tuple unpacked into speaker, text, start, end.
JsonifyLoop ==
    /\ json_pc = "loop"
    /\ json_i <= Len(transcription)
    /\ LET speaker == transcription[json_i][1]
           txt     == transcription[json_i][2]
           start   == transcription[json_i][3]
           end     == transcription[json_i][4]
       IN  result' = Append(result, [speaker |-> SpeakerName(speaker), text |-> txt,
                                     start |-> start, end |-> end])
    /\ json_i' = json_i + 1
    /\ UNCHANGED <<SPEAKER_MAPPING, transcription, json_pc, json_ret>>
    /\ UNCHANGED <<concat_vars, spk_vars, fmt_vars>>

\* Line 57
JsonifyReturn ==
    /\ json_pc = "loop"
    /\ json_i > Len(transcription)
    /\ json_ret' = result
    /\ json_pc' = "done"
    /\ UNCHANGED <<SPEAKER_MAPPING, transcription, result, json_i>>
    /\ UNCHANGED <<concat_vars, spk_vars, fmt_vars>>

JsonifyNext == JsonifyEnter \/ JsonifyLoop \/ JsonifyReturn

NoMapping == [id \in {} |-> None]

Mappings == {NoMapping, [id \in {0} |-> "Alice"],
             [id \in {0, 1} |-> IF id = 0 THEN "Alice" ELSE "Bob"]}

Turns == {<<sp, tx, tm[1], tm[2]>> :
             sp \in {0, 1, -1}, tx \in {"hi", "bye"}, tm \in {<<0, 1>>, <<1, 2>>}}

\* -------------------------------------------------- format_transcription

Word(w, s, e, p) == [word |-> w, start |-> s, end |-> e, probability |-> p]

\* Lines 86-96
jsonify_word(word) ==
    [word |-> word.word, start |-> word.start, end |-> word.end,
     probability |-> word.probability, tokens |-> None]

\* Lines 99-115
jsonify_segment(segment) ==
    [seek |-> segment.seek,
     start |-> segment.start,
     end |-> segment.end,
     text |-> segment.text,
     tokens |-> segment.tokens,
     temperature |-> segment.temperature,
     avg_logprob |-> segment.avg_logprob,
     compression_ratio |-> segment.compression_ratio,
     no_speech_prob |-> segment.no_speech_prob,
     id |-> segment.id,
     words |-> [k \in 1..Len(segment.words) |-> jsonify_word(segment.words[k])]]

\* Mutant: the segment texts are joined with a space.
AddText_Spaced(acc, segment) ==
    IF acc = <<>> THEN segment.text ELSE acc \o <<" ">> \o segment.text

\* Line 82: transcription_text += segment.text
AddText(acc, segment) == acc \o segment.text

\* iter(segments): a list is traversed from its start by every for loop, a
\* generator goes on from where it stopped.
NewIterator == IF segments.kind = "list" THEN 0 ELSE yielded

\* Whether next() on the running iterator has a segment to give.
HasNext == iter_pos < Len(segments.items)

\* Lines 124-125 up to line 80: language, the call of concatenate_segments.
FormatEnter ==
    /\ fmt_pc = "call"
    /\ language' = info.language
    /\ transcription_text' = <<>>
    /\ iter_pos' = NewIterator
    /\ fmt_pc' = "concatenate"
    /\ UNCHANGED <<segments, info, yielded, text, json_segments, fmt_ret>>
    /\ UNCHANGED <<concat_vars, spk_vars, json_vars>>

\* Lines 81-82: one iteration of the loop of concatenate_segments.
ConcatenateSegmentsLoop ==
    /\ fmt_pc = "concatenate"
    /\ HasNext
    /\ transcription_text' = AddText(transcription_text, segments.items[iter_pos + 1])
    /\ iter_pos' = iter_pos + 1
    /\ yielded' = (IF segments.kind = "list" THEN yielded ELSE iter_pos + 1)
    /\ UNCHANGED <<segments, info, language, text, json_segments, fmt_pc, fmt_ret>>
    /\ UNCHANGED <<concat_vars, spk_vars, json_vars>>

\* Lines 83 and 125, and the start of the comprehension of line 126.
ConcatenateSegmentsReturn ==
    /\ fmt_pc = "concatenate"
    /\ ~HasNext
    /\ text' = transcription_text
    /\ json_segments' = <<>>
    /\ iter_pos' = NewIterator
    /\ fmt_pc' = "jsonify"
    /\ UNCHANGED <<segments, info, yielded, language, transcription_text, fmt_ret>>
    /\ UNCHANGED <<concat_vars, spk_vars, json_vars>>

\* Line 126: one element of the comprehension.
JsonifySegmentsLoop ==
    /\ fmt_pc = "jsonify"
    /\ HasNext
    /\ json_segments' = Append(json_segments, jsonify_segment(segments.items[iter_pos + 1]))
    /\ iter_pos' = iter_pos + 1
    /\ yielded' = (IF segments.kind = "list" THEN yielded ELSE iter_pos + 1)
    /\ UNCHANGED <<segments, info, language, transcription_text, text, fmt_pc, fmt_ret>>
    /\ UNCHANGED <<concat_vars, spk_vars, json_vars>>

\* Lines 127-131
FormatReturn ==
    /\ fmt_pc = "jsonify"
    /\ ~HasNext
    /\ fmt_ret' = [language |-> language, text |-> text, segments |-> json_segments]
    /\ fmt_pc' = "done"
    /\ UNCHANGED <<segments, info, yielded, iter_pos, language, transcription_text, text,
                   json_segments>>
    /\ UNCHANGED <<concat_vars, spk_vars, json_vars>>

FormatNext ==
    \/ FormatEnter
    \/ ConcatenateSegmentsLoop
    \/ ConcatenateSegmentsReturn
    \/ JsonifySegmentsLoop
    \/ FormatReturn

\* Recognized segments as faster-whisper delivers them.
RecognizedSegments ==
    {[seek |-> 0, start |-> 1, end |-> 3, text |-> <<" ", "h", "i">>, tokens |-> <<50, 51>>,
      temperature |-> 4, avg_logprob |-> -5, compression_ratio |-> 6, no_speech_prob |-> 7,
      id |-> 8, words |-> <<Word(<<" ", "h", "i">>, 1, 3, 90)>>],
     [seek |-> 10, start |-> 13, end |-> 16, text |-> <<" ", "o", "k", " ", "b", "y", "e">>,
      tokens |-> <<52, 53, 54>>, temperature |-> 14, avg_logprob |-> -15,
      compression_ratio |-> 17, no_speech_prob |-> 18, id |-> 19,
      words |-> <<Word(<<" ", "o", "k">>, 13, 14, 80), Word(<<" ", "b", "y", "e">>, 14, 16, 70)>>],
     [seek |-> 20, start |-> 21, end |-> 22, text |-> <<>>, tokens |-> <<>>,
      temperature |-> 23, avg_logprob |-> -24, compression_ratio |-> 25,
      no_speech_prob |-> 26, id |-> 27, words |-> <<>>]}

Iterables ==
    {[kind |-> k, items |-> items] :
        k \in {"list", "generator"}, items \in SeqsUpTo(RecognizedSegments, MaxSegments)}

Infos == {[language |-> "en"], [language |-> "fr"]}

\* ------------------------------------------------------- specifications

ConcatIdle ==
    /\ annotation = None
    /\ data = None
    /\ concat_i = 1
    /\ concat_pc = "call"
    /\ concat_ret = None
    /\ concat_exc = None

NoConcat == chunks = <<>> /\ collar = 0 /\ ConcatIdle

ExtractIdle == spk_pc = "call" /\ spk_ret = None /\ spk_exc = None /\ log = <<>>

NoExtract == speaker_label = PyNone /\ ExtractIdle

JsonifyIdle == result = None /\ json_i = 1 /\ json_pc = "call" /\ json_ret = None

NoJsonify == SPEAKER_MAPPING = NoMapping /\ transcription = <<>> /\ JsonifyIdle

FormatIdle ==
    /\ yielded = 0
    /\ iter_pos = 0
    /\ language = None
    /\ transcription_text = None
    /\ text = None
    /\ json_segments = None
    /\ fmt_pc = "call"
    /\ fmt_ret = None

NoFormat == segments = [kind |-> "list", items |-> <<>>] /\ info = [language |-> "en"] /\ FormatIdle

InitAnn ==
    /\ chunks \in SeqsUpTo(AnnChunks, MaxChunks)
    /\ collar \in Collars
    /\ ConcatIdle
    /\ NoExtract /\ NoJsonify /\ NoFormat

InitWav ==
    /\ chunks \in SeqsUpTo(WavChunks, MaxChunks)
    /\ collar = 0
    /\ ConcatIdle
    /\ NoExtract /\ NoJsonify /\ NoFormat

InitSpeaker ==
    /\ speaker_label \in SpeakerLabels
    /\ ExtractIdle
    /\ NoConcat /\ NoJsonify /\ NoFormat

InitTurns ==
    /\ SPEAKER_MAPPING \in Mappings
    /\ transcription \in SeqsUpTo(Turns, MaxTurns)
    /\ JsonifyIdle
    /\ NoConcat /\ NoExtract /\ NoFormat

InitDocument ==
    /\ segments \in Iterables
    /\ info \in Infos
    /\ FormatIdle
    /\ NoConcat /\ NoExtract /\ NoJsonify

\* concat over chunks whose diarizations vary
SpecAnn == InitAnn /\ [][ConcatNext]_vars

\* concat over chunks whose waveforms vary
SpecWav == InitWav /\ [][ConcatNext]_vars

SpecSpeaker == InitSpeaker /\ [][ExtractNext]_vars

SpecTurns == InitTurns /\ [][JsonifyNext]_vars

SpecDocument == InitDocument /\ [][FormatNext]_vars

\* ------------------------------------------------------- claims on concat

\* The intervals of a label over all input chunks.
InputIntervals(l) ==
    {t.seg : t \in {u \in UNION {chunks[i].ann.tracks : i \in 1..Len(chunks)} : u.label = l}}

\* The intervals of a label that reach the support: a track of a later chunk with
\* the same segment and track name replaces the track of an earlier chunk.
UnionedIntervals(l) ==
    UNION {{t.seg : t \in {u \in chunks[i].ann.tracks :
                              /\ u.label = l
                              /\ ~\E j \in (i + 1)..Len(chunks) :
                                     \E v \in chunks[j].ann.tracks :
                                         v.seg = u.seg /\ v.track = u.track}}
           : i \in 1..Len(chunks)}

ResultIntervals(l) == {t.seg : t \in {u \in concat_ret[1].tracks : u.label = l}}

\* The pause between two intervals; zero or less when they touch or overlap.
Pause(a, b) == Max2(a.start, b.start) - Min2(a.end, b.end)

Covers(r, a) == r.start <= a.start /\ a.end <= r.end

MaxEnd(S) == CHOOSE e \in {a.end : a \in S} : \A a \in S : a.end <= e

\* C1 as stated: for every label and every pair of its input intervals, a pause
\* <= collar gives one result interval spanning both, a pause > collar leaves the
\* two in distinct result intervals.
C1_AsStated ==
    concat_pc = "done" =>
        \A l \in Labels : \A a, b \in InputIntervals(l) :
            /\ Pause(a, b) <= collar =>
                   \E r \in ResultIntervals(l) : Covers(r, a) /\ Covers(r, b)
            /\ Pause(a, b) > collar =>
                   ~\E r \in ResultIntervals(l) : Covers(r, a) /\ Covers(r, b)

\* C1 amended: for every label, (1) two of its unioned intervals that overlap, touch
\* or are separated by a pause strictly shorter than collar lie in one result
\* interval; (2) a result interval starts at the least start and ends at the
\* greatest end of the intervals it holds; (3) inside a result interval every
\* interval starts less than collar after (or not after) the end of the intervals
\* that start before it, so intervals a pause >= collar apart stay distinct unless
\* other intervals of the label bridge them; (4) two result intervals of one label
\* are a positive pause of at least collar apart.
C1_MergedWithinCollar ==
    concat_pc = "done" =>
        \A l \in Labels :
            LET ins == UnionedIntervals(l)
                res == ResultIntervals(l)
                held(r) == {a \in ins : Covers(r, a)}
            IN  /\ \A a, b \in ins :
                       (Pause(a, b) <= 0 \/ Pause(a, b) < collar) =>
                           \E r \in res : Covers(r, a) /\ Covers(r, b)
                /\ \A r \in res :
                       /\ \E a \in held(r) : a.start = r.start
                       /\ \E a \in held(r) : a.end = r.end
                       /\ \A b \in held(r) :
                              LET before == {a \in held(r) : a.start < b.start}
                              IN  before # {} =>
                                      \/ b.start - MaxEnd(before) <= 0
                                      \/ b.start - MaxEnd(before) < collar
                /\ \A r, q \in res :
                       r # q => Pause(r, q) > 0 /\ Pause(r, q) >= collar

\* C1 witness: two intervals of one speaker, from two chunks, a positive pause
\* shorter than collar apart, were merged into one.
C1_Witness ==
    /\ concat_pc = "done"
    /\ \E l \in Labels : \E a, b \in UnionedIntervals(l) :
           /\ Pause(a, b) > 0 /\ Pause(a, b) < collar
           /\ Cardinality(ResultIntervals(l)) = 1
           /\ \E r \in ResultIntervals(l) : Covers(r, a) /\ Covers(r, b)

\* C3: concat on an empty chunk sequence leaves by the exception of chunks[0]
\* (IndexError) and returns nothing.
C3_EmptyChunksRaise ==
    chunks = <<>> =>
        /\ concat_pc \in {"call", "raised"}
        /\ concat_ret = None
        /\ annotation = None /\ data = None
        /\ concat_pc = "raised" => concat_exc = "IndexError"

C3_Witness == chunks = <<>> /\ concat_pc = "raised" /\ concat_exc = "IndexError"

\* The number of frames of the buffers of the chunks before chunk i.
RECURSIVE FramesBefore(_)
FramesBefore(i) ==
    IF i <= 1 THEN 0 ELSE FramesBefore(i - 1) + Len(chunks[i - 1].wav.data.rows)

\* C2: the returned buffer is the input buffers one after the other in input order:
\* its length is the sum of the input lengths, frame k of chunk i is frame
\* FramesBefore(i) + k of the result, and a single chunk's buffer is returned as is.
C2_BuffersConcatenated ==
    concat_pc = "done" =>
        LET out == concat_ret[2].data
        IN  /\ Len(out.rows) = FramesBefore(Len(chunks) + 1)
            /\ \A i \in 1..Len(chunks) :
                   \A k \in 1..Len(chunks[i].wav.data.rows) :
                       out.rows[FramesBefore(i) + k] = chunks[i].wav.data.rows[k]
            /\ Len(chunks) = 1 => out = chunks[1].wav.data

\* C2 witness: two chunks with different non-empty buffers were concatenated.
C2_Witness ==
    /\ concat_pc = "done"
    /\ Len(chunks) = 2
    /\ chunks[1].wav.data.rows # <<>>
    /\ chunks[2].wav.data.rows # <<>>
    /\ chunks[1].wav.data # chunks[2].wav.data
    /\ Len(concat_ret[2].data.rows) >= 2

WindowsDiffer ==
    \E i, j \in 1..Len(chunks) :
        \/ chunks[i].wav.sliding_window.duration # chunks[j].wav.sliding_window.duration
        \/ chunks[i].wav.sliding_window.step # chunks[j].wav.sliding_window.step

ChannelsDiffer ==
    \E i, j \in 1..Len(chunks) : chunks[i].wav.data.channels # chunks[j].wav.data.channels

\* C4 as stated: chunks whose sliding windows differ in duration or step yield no
\* merged result.
C4_AsStated == WindowsDiffer => concat_pc # "done"

\* C4 amended: concat never compares sliding windows.  Once it has ended, it has
\* raised exactly when chunks is empty (IndexError) or the buffers differ in channel
\* count (ValueError of np.concatenate); otherwise it returns a merged waveform, also
\* when duration or step differ across the chunks.
C4_WindowsNotCompared ==
    concat_pc \in {"done", "raised"} =>
        /\ concat_pc = "raised" <=> (chunks = <<>> \/ ChannelsDiffer)
        /\ concat_pc = "raised" =>
               /\ concat_ret = None
               /\ concat_exc = (IF chunks = <<>> THEN "IndexError" ELSE "ValueError")
        /\ concat_pc = "done" => concat_exc = None /\ concat_ret # None

\* C4 witness: a merged waveform was returned for chunks whose steps differ, and
\* for chunks whose durations differ.
C4_Witness ==
    /\ concat_pc = "done"
    /\ concat_ret # None
    /\ WindowsDiffer

\* C10: the returned window has the first chunk's duration, step and start, and
\* the returned annotation has the first chunk's uri.
C10_FirstChunkWindowAndUri ==
    concat_pc = "done" =>
        /\ concat_ret[2].sliding_window.duration = chunks[1].wav.sliding_window.duration
        /\ concat_ret[2].sliding_window.step = chunks[1].wav.sliding_window.step
        /\ concat_ret[2].sliding_window.start = chunks[1].wav.sliding_window.start
        /\ concat_ret[1].uri = chunks[1].ann.uri

\* C10 witness: the second chunk's window start and uri differ from the first's.
C10_Witness ==
    /\ concat_pc = "done"
    /\ Len(chunks) = 2
    /\ chunks[2].wav.sliding_window.start # chunks[1].wav.sliding_window.start
    /\ chunks[2].ann.uri # chunks[1].ann.uri
    /\ concat_ret[2].sliding_window.start = chunks[1].wav.sliding_window.start

\* --------------------------------------------- claims on extract_speaker_id

\* The characters speaker_label[-2:] reads, taken one by one.
Trailing ==
    LET cs == speaker_label.chars
    IN  IF Len(cs) >= 2 THEN <<cs[Len(cs) - 1], cs[Len(cs)]>> ELSE cs

Digit(c) == c \in {"0", "1", "2", "3", "4", "5", "6", "7", "8", "9"}

Val(c) ==
    CASE c = "0" -> 0 [] c = "1" -> 1 [] c = "2" -> 2 [] c = "3" -> 3 [] c = "4" -> 4
      [] c = "5" -> 5 [] c = "6" -> 6 [] c = "7" -> 7 [] c = "8" -> 8 [] c = "9" -> 9

\* The base-10 numbers of at most two characters: a digit, two digits, a digit
\* with a sign before it, a digit with a blank before or after it.
IsNumber(t) ==
    \/ Len(t) = 1 /\ Digit(t[1])
    \/ Len(t) = 2 /\ Digit(t[1]) /\ Digit(t[2])
    \/ Len(t) = 2 /\ t[1] \in {"+", "-", " "} /\ Digit(t[2])
    \/ Len(t) = 2 /\ Digit(t[1]) /\ t[2] = " "

NumberOf(t) ==
    IF Len(t) = 1 THEN Val(t[1])
    ELSE IF Digit(t[1]) /\ Digit(t[2]) THEN 10 * Val(t[1]) + Val(t[2])
    ELSE IF t[1] = "-" THEN 0 - Val(t[2])
    ELSE IF Digit(t[1]) THEN Val(t[1])
    ELSE Val(t[2])

Warned == log = <<"WARNING">>

\* C5: extract_speaker_id never raises; for a str whose trailing characters form a
\* base-10 number it returns that number and logs nothing; for every other label
\* (other trailing characters, None, a non-string) it returns -1 after one warning.
C5_NeverRaises ==
    /\ spk_pc # "raised"
    /\ spk_pc = "done" =>
           IF speaker_label.type = "str" /\ IsNumber(Trailing)
           THEN spk_ret = NumberOf(Trailing) /\ log = <<>>
           ELSE spk_ret = -1 /\ Warned

\* C5 witness: the absent label was answered with -1 and a warning.
C5_Witness ==
    /\ spk_pc = "done"
    /\ speaker_label = PyNone
    /\ spk_ret = -1
    /\ Warned

\* C6 as stated: every label shorter than two characters gives -1 and a warning.
C6_AsStated ==
    (spk_pc = "done" /\ speaker_label.type = "str" /\ Len(speaker_label.chars) < 2) =>
        spk_ret = -1 /\ Warned

\* C6 amended: the empty label and a label of one character that is no digit give
\* -1 and a warning; a label of one digit gives that digit and no warning.
C6_ShortLabels ==
    (spk_pc = "done" /\ speaker_label.type = "str" /\ Len(speaker_label.chars) < 2) =>
        IF Len(speaker_label.chars) = 1 /\ Digit(speaker_label.chars[1])
        THEN spk_ret = Val(speaker_label.chars[1]) /\ log = <<>>
        ELSE spk_ret = -1 /\ Warned

\* C6 witness: the label "7" was answered with 7.
C6_Witness ==
    /\ spk_pc = "done"
    /\ speaker_label = PyStr(<<"7">>)
    /\ spk_ret = 7
    /\ log = <<>>

\* ------------------------------------------ claims on jsonify_transcription

RECURSIVE TextBefore(_)
TextBefore(i) ==
    IF i <= 1 THEN 0 ELSE TextBefore(i - 1) + Len(segments.items[i - 1].text)

\* C8: for a non-empty segment sequence the text of the document is the segment
\* texts one after the other in input order, nothing between them, and its
\* language is info.language.
C8_TextIsConcatenation ==
    (fmt_pc = "done" /\ segments.items # <<>>) =>
        /\ fmt_ret.language = info.language
        /\ Len(fmt_ret.text) = TextBefore(Len(segments.items) + 1)
        /\ \A i \in 1..Len(segments.items) :
               \A k \in 1..Len(segments.items[i].text) :
                   fmt_ret.text[TextBefore(i) + k] = segments.items[i].text[k]

\* C8 witness: a document over two segments with texts.
C8_Witness ==
    /\ fmt_pc = "done"
    /\ Len(segments.items) = 2
    /\ segments.items[1].text # <<>>
    /\ segments.items[2].text # <<>>
    /\ segments.items[1] # segments.items[2]
    /\ fmt_ret.text = segments.items[1].text \o segments.items[2].text

\* C9: the segments of the document are the input segments, one entry each in
\* input order, fields verbatim, one word object per word with tokens null, also
\* for an iterable that can be traversed only once.
C9_AsStated ==
    fmt_pc = "done" =>
        /\ Len(fmt_ret.segments) = Len(segments.items)
        /\ \A i \in 1..Len(segments.items) :
               LET in  == segments.items[i]
                   out == fmt_ret.segments[i]
               IN  /\ out.seek = in.seek /\ out.start = in.start /\ out.end = in.end
                   /\ out.text = in.text /\ out.tokens = in.tokens
                   /\ out.temperature = in.temperature
                   /\ out.avg_logprob = in.avg_logprob
                   /\ out.compression_ratio = in.compression_ratio
                   /\ out.no_speech_prob = in.no_speech_prob
                   /\ out.id = in.id
                   /\ Len(out.words) = Len(in.words)
                   /\ \A k \in 1..Len(in.words) :
                          out.words[k] = [word |-> in.words[k].word,
                                          start |-> in.words[k].start,
                                          end |-> in.words[k].end,
                                          probability |-> in.words[k].probability,
                                          tokens |-> None]

====
